---- MODULE Spec2Model ----
(***************************************************************************)
(* A model of the generation-control engine of Clover-Edition              *)
(* (src/gpt2generator.py): the retry controller GPT2Generator.generate,    *)
(* its post-processing result_replace, the decode loop sample_sequence,    *)
(* the distribution filter top_k_top_p_filtering and the context           *)
(* truncation truncate_multiple_sequences.                                 *)
(*                                                                         *)
(* Text is a sequence of one-character strings.  Scores (logits) are       *)
(* integers in units of ln 2, so that exp(score) is exactly 2^score and    *)
(* the softmax is computed in exact integer arithmetic.                    *)
(***************************************************************************)
EXTENDS Integers, Sequences, FiniteSets, TLC

VARIABLES
    \* ---- GPT2Generator.generate ----
    pc,           \* position of the generate call chain
    depth,        \* the depth argument of the current generate call
    prompt,       \* the prompt argument: a list of text segments
    text,         \* the text returned by generate_raw at this depth
    result,       \* the local variable result
    relaxed,      \* whether result_replace(text, allow_action=True) was run
    attempts,     \* number of generate_raw calls made for the request
    ret,          \* the value returned to the caller of generate(depth=0)
    log,          \* per generate call: its depth and what post-processing gave
    cutPolicy,    \* how cut_trailing_sentence treats text without an ending
    \* ---- top_k_top_p_filtering ----
    fpc,          \* "call" before the filter has run, "done" after
    logits,       \* the score vector passed in
    top_k,        \* the top_k argument
    top_p,        \* the top_p argument, a fraction [num, den]
    after_top_k,  \* logits after the top-k stage (line 34)
    sorted_indices, \* the order torch.sort returned (line 37)
    filtered,     \* the vector returned
    \* ---- sample_sequence ----
    spc,          \* "loop" while the decode loop runs, "done" after
    context,      \* the initial context
    generated,    \* the sequence so far
    j,            \* the loop index
    length,       \* the number of tokens asked for
    stop_tokens,  \* [given, toks]: None or the list of stop tokens
    temperature,  \* a fraction [num, den]
    repetition_penalty,
    past,         \* [given, toks]: the cache, as the tokens it stands for
    fed,          \* all input_ids given to the model so far, in order
    inputs,       \* [input_ids, past]: the inputs of the latest model call
    scorer,       \* 0: any scoring model; T: a stub scoring token T highest
    stage,        \* [scaled, penalised, seq]: the latest penalty stage
    \* ---- truncate_multiple_sequences ----
    tpc,          \* "loop", "done" or "raised"
    seqs,         \* the list of segments, mutated in place
    seqs0,        \* the segments as they were passed in
    max_len,      \* the budget
    \* ---- result_replace applied repeatedly ----
    rpc,          \* "call" while result_replace is being applied, "done" after
    rtext,        \* the string first passed in
    rallow,       \* the allow_action argument
    rpolicy,      \* how cut_trailing_sentence treats text without an ending
    rresults,     \* what the successive applications gave
    \* ---- play ----
    gpc,          \* "menu", "input", "exited" or "raised"
    nlines,       \* number of input lines read by the game loop
    last,         \* [line, acts]: the latest line and its story_manager.act calls
    acts          \* number of story_manager.act calls made so far

generateVars == <<pc, depth, prompt, text, result, relaxed, attempts, ret, log, cutPolicy>>

filterVars == <<fpc, logits, after_top_k, sorted_indices, filtered>>

paramVars == <<top_k, top_p>>

sampleVars == <<spc, context, generated, j, length, stop_tokens, temperature,
                repetition_penalty, past, fed, inputs, scorer, stage>>

truncateVars == <<tpc, seqs, seqs0, max_len>>

replaceVars == <<rpc, rtext, rallow, rpolicy, rresults>>

playVars == <<gpc, nlines, last, acts>>

vars == <<generateVars, filterVars, paramVars, sampleVars, truncateVars, replaceVars, playVars>>

(***************************************************************************)
(* Bounds of the model and constants of the program.                       *)
(***************************************************************************)
MaxTextLen == 2

MaxDepth == 20

ActionDepth == 6

\* The characters of decoded text; the literal "<|endoftext|>" is one unit.
Alphabet == {"A", "a", ".", ">", "#", "*", "\"", "\n", "<|endoftext|>"}

RECURSIVE SeqsUpTo(_, _)
SeqsUpTo(S, n) ==
    IF n = 0 THEN {<<>>}
    ELSE LET shorter == SeqsUpTo(S, n - 1)
         IN  shorter \cup {Append(s, c) : s \in {t \in shorter : Len(t) = n - 1}, c \in S}

Texts == SeqsUpTo(Alphabet, MaxTextLen)

InitialPrompts ==
    { <<>>,
      << <<"a">> >>,
      << <<"a", " ">>, <<"a">> >>,
      << <<"a", " ", " ">> >> }

CutPolicies == {"keep", "drop"}

(***************************************************************************)
(* Text helpers.                                                           *)
(***************************************************************************)
IsUpper(c) == c = "A"

Lower(c) == IF c = "A" THEN "a" ELSE c

\* str.replace(old, new) for a one-character old and new = "".
RECURSIVE RemoveChar(_, _)
RemoveChar(s, c) ==
    IF s = <<>> THEN <<>>
    ELSE IF Head(s) = c THEN RemoveChar(Tail(s), c)
    ELSE <<Head(s)>> \o RemoveChar(Tail(s), c)

\* str.replace(old, new) for a two-character old: a left-to-right scan over
\* non-overlapping occurrences.
RECURSIVE ReplacePair(_, _, _)
ReplacePair(s, old, new) ==
    IF Len(s) < 2 THEN s
    ELSE IF SubSeq(s, 1, 2) = old THEN new \o ReplacePair(SubSeq(s, 3, Len(s)), old, new)
    ELSE <<Head(s)>> \o ReplacePair(Tail(s), old, new)

(***************************************************************************)
(* story.utils.cut_trailing_sentence is not part of the sources at hand;   *)
(* it is modelled from the specification: content after the last           *)
(* sentence-ending punctuation is dropped, and with allow_action the       *)
(* action marker ">" also counts as an ending.  The specification leaves   *)
(* open what happens to text with no ending at all: policy "keep" returns  *)
(* it whole, policy "drop" returns the empty text.                         *)
(***************************************************************************)
Endings(allow_action) == {".", "!", "?"} \cup (IF allow_action THEN {">"} ELSE {})

cut_trailing_sentence(t, allow_action, policy) ==
    LET ends == {i \in 1..Len(t) : t[i] \in Endings(allow_action)}
    IN  IF ends = {} THEN (IF policy = "keep" THEN t ELSE <<>>)
        ELSE SubSeq(t, 1, CHOOSE i \in ends : \A k \in ends : k <= i)

(***************************************************************************)
(* GPT2Generator.result_replace.  The value is a record: raised tells      *)
(* whether the call ended in an exception (result[0] on an empty string),  *)
(* value is the string returned otherwise.                                 *)
(***************************************************************************)
Returned(s) == [raised |-> FALSE, value |-> s]

Raised == [raised |-> TRUE, value |-> <<>>]

LowerFirst(s) ==
    IF s = <<>> THEN Raised
    ELSE Returned(<<Lower(s[1])>> \o Tail(s))

result_replace(t, allow_action, policy) ==
    LET cut == cut_trailing_sentence(t, allow_action, policy)
    IN  IF Len(cut) = 0 THEN Returned(<<>>)
        ELSE LET first_letter_capitalized == IsUpper(cut[1])
                 r1 == ReplacePair(cut, <<".", "\"">>, <<"\"", ".">>)
                 r2 == RemoveChar(r1, "#")
                 r3 == RemoveChar(r2, "*")
                 r4 == ReplacePair(r3, <<"\n", "\n">>, <<"\n">>)
             IN  IF ~first_letter_capitalized THEN LowerFirst(r4)
                 ELSE Returned(r4)

(***************************************************************************)
(* result_replace applied to a string and then to its own result.          *)
(***************************************************************************)
MaxCleanLen == 4

ReplaceIdle ==
    /\ rpc = "idle"
    /\ rtext = <<>>
    /\ rallow = FALSE
    /\ rpolicy = "keep"
    /\ rresults = <<>>

ReplaceStart ==
    /\ rpc = "call"
    /\ rtext \in SeqsUpTo(Alphabet, MaxCleanLen)
    /\ rallow \in BOOLEAN
    /\ rpolicy \in CutPolicies
    /\ rresults = <<>>

\* One call of result_replace, on the input or on the previous result.
ApplyResultReplace ==
    /\ rpc = "call"
    /\ LET arg == IF rresults = <<>> THEN rtext ELSE rresults[Len(rresults)].value
           out == result_replace(arg, rallow, rpolicy)
       IN  /\ rresults' = Append(rresults, out)
           /\ rpc' = IF out.raised \/ Len(rresults) + 1 = 2 THEN "done" ELSE "call"
    /\ UNCHANGED <<rtext, rallow, rpolicy>>
    /\ UNCHANGED <<generateVars, filterVars, paramVars, sampleVars, truncateVars, playVars>>

NextReplace == ApplyResultReplace

(***************************************************************************)
(* GPT2Generator.prompt_replace: strip one trailing space.                 *)
(***************************************************************************)
prompt_replace(p) ==
    IF Len(p) > 0 /\ p[Len(p)] = " " THEN SubSeq(p, 1, Len(p) - 1) ELSE p

\* " {}".format(depth): the marker segment appended on a retry.
Marker(d) == <<" ", ToString(d)>>

(***************************************************************************)
(* GPT2Generator.generate, one recursion level in two steps: the           *)
(* sampling attempt (lines 266-272) and the post-processing with the       *)
(* retry decision (lines 276-298).                                         *)
(***************************************************************************)
GenerateStart ==
    /\ pc = "generate_raw"
    /\ depth = 0
    /\ prompt \in InitialPrompts
    /\ text = <<>>
    /\ result = <<>>
    /\ relaxed = FALSE
    /\ attempts = 0
    /\ ret = <<>>
    /\ log = <<>>
    /\ cutPolicy \in CutPolicies

(***************************************************************************)
(* GPT2Generator.generate_raw, lines 250-260: the cuts made in the decoded *)
(* text.  self.stop_token is "<|endoftext|>"; the loop over stop_tokens    *)
(* searches for self.stop_token again on every pass, not for the loop      *)
(* variable.                                                               *)
(***************************************************************************)
StopToken == "<|endoftext|>"

\* self.tokenizer.encode(["<|endoftext|>", ">"]) (line 271), as the text
\* forms of the two stop tokens.
GenerateStopTokens == <<"<|endoftext|>", ">">>

\* text[:index] with index = text.find(marker), or None when not found.
CutAt(t, marker) ==
    LET found == {i \in 1..Len(t) : t[i] = marker}
    IN  IF found = {} THEN t
        ELSE SubSeq(t, 1, (CHOOSE i \in found : \A k \in found : i <= k) - 1)

RECURSIVE CutForEach(_, _)
CutForEach(t, stops) ==
    IF stops = <<>> THEN t
    ELSE CutForEach(CutAt(t, StopToken), Tail(stops))

StopCuts(t, stops) == CutForEach(CutAt(t, StopToken), stops)

\* Lines 266-272: normalise the segments, then one sampling attempt whose
\* decoded text is any text the sampler can produce.
GenerateRaw ==
    /\ pc = "generate_raw"
    /\ prompt' = [i \in 1..Len(prompt) |-> prompt_replace(prompt[i])]
    /\ \E t \in Texts : text' = StopCuts(t, GenerateStopTokens)
    /\ attempts' = attempts + 1
    /\ pc' = "result_replace"
    /\ UNCHANGED <<depth, result, relaxed, ret, log, cutPolicy>>
    /\ UNCHANGED <<filterVars, paramVars, sampleVars, truncateVars, replaceVars, playVars>>

\* Whether the relaxed post-processing of line 281 runs.
UseAllowActionFromDepth(d, r) == d >= ActionDepth /\ ~r.raised /\ Len(r.value) = 0

UseAllowAction(d, r) == d > ActionDepth /\ ~r.raised /\ Len(r.value) = 0

\* Whether generate recurses (line 289).
RetryOneMore(d) == d <= MaxDepth

RetryOneFewer(d) == d < MaxDepth - 1

Retry(d) == d < MaxDepth

\* Lines 276-298.
PostProcess ==
    /\ pc = "result_replace"
    /\ LET first == result_replace(text, FALSE, cutPolicy)
           again == UseAllowAction(depth, first)
           final == IF again THEN result_replace(text, TRUE, cutPolicy) ELSE first
       IN  /\ relaxed' = again
           /\ log' = Append(log, [depth |-> depth, prompt |-> prompt, normal |-> first,
                                  relaxed |-> again, out |-> final])
           /\ IF final.raised
              THEN /\ pc' = "raised"
                   /\ UNCHANGED <<depth, prompt, result, ret>>
              ELSE /\ result' = final.value
                   /\ IF Len(final.value) = 0 /\ Retry(depth)
                      THEN /\ prompt' = Append(prompt, Marker(depth))
                           /\ depth' = depth + 1
                           /\ pc' = "generate_raw"
                           /\ UNCHANGED ret
                      ELSE /\ ret' = final.value
                           /\ pc' = "returned"
                           /\ UNCHANGED <<depth, prompt>>
    /\ UNCHANGED <<text, attempts, cutPolicy>>
    /\ UNCHANGED <<filterVars, paramVars, sampleVars, truncateVars, replaceVars, playVars>>

NextGenerate == GenerateRaw \/ PostProcess

(***************************************************************************)
(* top_k_top_p_filtering.  A score vector is a sequence indexed by token   *)
(* id 1..n.  FilterValue stands for -inf: it is below every score and its  *)
(* softmax weight is 0.                                                    *)
(***************************************************************************)
VocabSize == 3

FilterValue == -1000

Scores == -1..1

Fraction(n, d) == [num |-> n, den |-> d]

TopPs == {Fraction(0, 1), Fraction(1, 1000), Fraction(1, 2), Fraction(3, 4),
          Fraction(9, 10), Fraction(1, 1), Fraction(3, 2)}

Min(a, b) == IF a < b THEN a ELSE b

Unmasked(v) == {i \in 1..Len(v) : v[i] # FilterValue}

\* The score vectors of the filter's checks: every entry a score or already
\* -inf, at least one entry finite.
ScoreVectors(n, S) == {v \in [1..n -> S \cup {FilterValue}] : Unmasked(v) # {}}

\* torch.topk(logits, k)[0][..., -1]: the k-th largest value.
KthLargest(v, k) ==
    CHOOSE x \in {v[i] : i \in 1..Len(v)} :
        /\ Cardinality({i \in 1..Len(v) : v[i] > x}) < k
        /\ Cardinality({i \in 1..Len(v) : v[i] >= x}) >= k

\* Line 33: the entries the top-k stage removes.
TopKRemove(v, k) == {i \in 1..Len(v) : v[i] < KthLargest(v, k)}

Mask(v, remove) == [i \in 1..Len(v) |-> IF i \in remove THEN FilterValue ELSE v[i]]

\* Lines 30-34.
TopKStage(v, k) ==
    LET kk == Min(k, Len(v))
    IN  IF kk > 0 THEN Mask(v, TopKRemove(v, kk)) ELSE v

\* The orders torch.sort(logits, descending=True) may return: equal scores
\* come in an order the library chooses.
DescendingOrders(v) ==
    {o \in [1..Len(v) -> 1..Len(v)] :
        /\ \A a, b \in 1..Len(v) : a # b => o[a] # o[b]
        /\ \A a, b \in 1..Len(v) : a < b => v[o[a]] >= v[o[b]]}

\* exp(score) up to the common factor the softmax divides out: 2^(score - least
\* finite score), and 0 for -inf.
Weight(v, i) ==
    IF v[i] = FilterValue THEN 0
    ELSE LET low == CHOOSE x \in {v[k] : k \in Unmasked(v)} :
                        \A k \in Unmasked(v) : x <= v[k]
         IN  2 ^ (v[i] - low)

RECURSIVE SumWeights(_, _, _)
SumWeights(v, order, n) ==
    IF n = 0 THEN 0 ELSE SumWeights(v, order, n - 1) + Weight(v, order[n])

\* Line 38: cumulative_probs[n] is CumWeight(v, order, n) / TotalWeight(v).
CumWeight(v, order, n) == SumWeights(v, order, n)

TotalWeight(v) == SumWeights(v, [i \in 1..Len(v) |-> i], Len(v))

\* Line 41: cumulative_probs > top_p, position by position in sorted order.
AboveThresholdOrEqual(cum, total, p) == cum * p.den >= p.num * total

AboveThreshold(cum, total, p) == cum * p.den > p.num * total

\* Lines 43-44: shift right by one and never remove the first.
ShiftedRemoveNoShift(rem, n) == rem[n]

ShiftedRemove(rem, n) == IF n = 1 THEN FALSE ELSE rem[n - 1]

\* Lines 36-50, given the order the sort returned.
TopPStage(v, p, order) ==
    IF p.num > 0
    THEN LET total == TotalWeight(v)
             rem == [n \in 1..Len(v) |-> AboveThreshold(CumWeight(v, order, n), total, p)]
             indices_to_remove == {order[n] : n \in {m \in 1..Len(v) : ShiftedRemove(rem, m)}}
         IN  Mask(v, indices_to_remove)
    ELSE v

FilterIdle ==
    /\ fpc = "idle"
    /\ logits = <<>>
    /\ after_top_k = <<>>
    /\ sorted_indices = <<>>
    /\ filtered = <<>>

ParamsIdle ==
    /\ top_k = 0
    /\ top_p = Fraction(0, 1)

FilterStart ==
    /\ fpc = "call"
    /\ logits \in ScoreVectors(VocabSize, Scores)
    /\ top_k \in 0..(VocabSize + 1)
    /\ top_p \in TopPs
    /\ after_top_k = <<>>
    /\ sorted_indices = <<>>
    /\ filtered = <<>>

\* One call of top_k_top_p_filtering.
Filter ==
    /\ fpc = "call"
    /\ LET afterK == TopKStage(logits, top_k)
       IN  /\ after_top_k' = afterK
           /\ IF top_p.num > 0
              THEN \E order \in DescendingOrders(afterK) :
                      /\ sorted_indices' = order
                      /\ filtered' = TopPStage(afterK, top_p, order)
              ELSE /\ sorted_indices' = <<>>
                   /\ filtered' = afterK
    /\ fpc' = "done"
    /\ UNCHANGED <<logits, paramVars, generateVars, sampleVars, truncateVars, replaceVars, playVars>>

NextFilter == Filter

(***************************************************************************)
(* sample_sequence (the module-level function), with num_samples = 1.      *)
(* Tokens are the ids 1..2.  The scoring model is any function from its    *)
(* inputs to a score vector over SampleScores; the scores are even so that *)
(* dividing by the repetition penalties modelled is exact.                 *)
(***************************************************************************)
MaxNew == 7

MinSteps == 4

Vocab == 1..2

SampleScores == {-2, 0, 2}

Contexts == {<<1>>, <<2, 1>>}

None == [given |-> FALSE, toks |-> <<>>]

Some(toks) == [given |-> TRUE, toks |-> toks]

StopTokenChoices == {None, Some(<<>>), Some(<<2>>), Some(<<1, 2>>)}

Temperatures == {Fraction(0, 1), Fraction(1, 1), Fraction(1, 2)}

Penalties == {1, 2}

SampleTopKs == {0, 1}

SampleTopPs == {Fraction(0, 1), Fraction(9, 10)}

Range(q) == {q[i] : i \in 1..Len(q)}

\* Lines 87-89: logits / (temperature if temperature > 0 else 1.0).
Scale(v, t) == [i \in 1..Len(v) |-> IF t.num > 0 THEN (v[i] * t.den) \div t.num ELSE v[i]]

PenaliseEachOccurrence(v, gen, penalty) ==
    LET RECURSIVE Divide(_, _)
        Divide(x, n) == IF n = 0 THEN x ELSE Divide(x \div penalty, n - 1)
    IN  [i \in 1..Len(v) |->
            Divide(v[i], Cardinality({n \in 1..Len(gen) : gen[n] = i}))]

\* Lines 92-94: for k in set(generated[i].tolist()): logits[i, k] /= penalty.
Penalise(v, gen, penalty) ==
    [i \in 1..Len(v) |-> IF i \in Range(gen) THEN v[i] \div penalty ELSE v[i]]

NoStage == [scaled |-> <<>>, penalised |-> <<>>, seq |-> <<>>]

\* Lines 99-104: the tokens the selection may return: an arg-max when
\* temperature is 0, else any token of positive probability.
SelectableSampled(v, t) == Unmasked(v)

Selectable(v, t) ==
    IF t.num = 0
    THEN {i \in 1..Len(v) : \A k \in 1..Len(v) : v[k] <= v[i]}
    ELSE Unmasked(v)

\* Lines 106-110: the break condition, at loop index i with token tok.
StopsAnyStep(stop, i, tok) == stop.given /\ tok \in Range(stop.toks)

Stops(stop, i, tok) == stop.given /\ i > MinSteps /\ tok \in Range(stop.toks)

\* range(length) has a next index after i.
HasNextStepOneMore(i, n) == i + 1 <= n

HasNextStep(i, n) == i + 1 < n

\* What the scoring model may return: any score vector, or for the stub one
\* that scores its fixed token strictly highest.
ModelOutputs(stub) ==
    {raw \in [1..Cardinality(Vocab) -> SampleScores] :
        stub # 0 => \A k \in Vocab \ {stub} : raw[k] < raw[stub]}

NoInputs == [input_ids |-> <<>>, past |-> None]

\* Lines 74, 79-80 and 105: input_ids is next_token, which is the context
\* before the first call and the token appended last afterwards.
InputIdsWhole(i, ctx, gen) == gen

InputIds(i, ctx, gen) == IF i = 0 THEN ctx ELSE <<gen[Len(gen)]>>

SampleIdle ==
    /\ spc = "idle"
    /\ context = <<>>
    /\ generated = <<>>
    /\ j = 0
    /\ length = 0
    /\ stop_tokens = None
    /\ temperature = Fraction(1, 1)
    /\ repetition_penalty = 1
    /\ past = None
    /\ fed = <<>>
    /\ inputs = NoInputs
    /\ scorer = 0
    /\ stage = NoStage

SampleStart ==
    /\ context \in Contexts
    /\ generated = context
    /\ j = 0
    /\ length \in 0..MaxNew
    /\ spc = IF length = 0 THEN "done" ELSE "loop"
    /\ stop_tokens \in StopTokenChoices
    /\ temperature \in Temperatures
    /\ repetition_penalty \in Penalties
    /\ top_k \in SampleTopKs
    /\ top_p \in SampleTopPs
    /\ past = None
    /\ fed = <<>>
    /\ inputs = NoInputs
    /\ scorer \in {0} \cup Vocab
    /\ stage = NoStage

\* One iteration of the loop of lines 77-118.
Step ==
    /\ spc = "loop"
    /\ LET input_ids == InputIds(j, context, generated)
       IN  /\ inputs' = [input_ids |-> input_ids, past |-> past]
           /\ fed' = fed \o input_ids
           /\ past' = Some(past.toks \o input_ids)
    /\ \E raw \in ModelOutputs(scorer) :
          LET next_token_logits ==
                  Penalise(Scale(raw, temperature), generated, repetition_penalty)
              afterK == TopKStage(next_token_logits, top_k)
          IN  \E order \in DescendingOrders(afterK) :
                 LET filtered_logits == TopPStage(afterK, top_p, order)
                 IN  \E next_token \in Selectable(filtered_logits, temperature) :
                        /\ stage' = [scaled |-> Scale(raw, temperature),
                                     penalised |-> next_token_logits,
                                     seq |-> generated]
                        /\ generated' = Append(generated, next_token)
                        /\ IF Stops(stop_tokens, j, next_token)
                           THEN /\ spc' = "done"
                                /\ j' = j
                           ELSE IF HasNextStep(j, length)
                           THEN /\ spc' = "loop"
                                /\ j' = j + 1
                           ELSE /\ spc' = "done"
                                /\ j' = j
    /\ UNCHANGED <<context, length, stop_tokens, temperature, repetition_penalty, scorer>>
    /\ UNCHANGED <<paramVars, generateVars, filterVars, truncateVars, replaceVars, playVars>>

NextSample == Step

(***************************************************************************)
(* truncate_multiple_sequences.                                            *)
(***************************************************************************)
MaxSegs == 3

MaxSegLen == 2

MaxBudget == 4

Segments == SeqsUpTo(Vocab, MaxSegLen)

SegmentLists == SeqsUpTo(Segments, MaxSegs)

RECURSIVE TotalLen(_)
TotalLen(ss) == IF ss = <<>> THEN 0 ELSE Len(Head(ss)) + TotalLen(Tail(ss))

\* sorted(seqs, key=len, reverse=True)[0]: the sort is stable, so among the
\* segments of greatest length the first of the list comes first.
LongestLast(ss) ==
    CHOOSE i \in 1..Len(ss) :
        /\ \A k \in 1..Len(ss) : Len(ss[k]) <= Len(ss[i])
        /\ \A k \in (i + 1)..Len(ss) : Len(ss[k]) < Len(ss[i])

Longest(ss) ==
    CHOOSE i \in 1..Len(ss) :
        /\ \A k \in 1..Len(ss) : Len(ss[k]) <= Len(ss[i])
        /\ \A k \in 1..(i - 1) : Len(ss[k]) < Len(ss[i])

\* list.pop(0) on a non-empty list.
PopLast(q) == SubSeq(q, 1, Len(q) - 1)

Pop0(q) == Tail(q)

\* The loop condition of line 124.
OverBudgetByTwo(ss, budget) == TotalLen(ss) > budget + 1

OverBudget(ss, budget) == TotalLen(ss) > budget

TruncateIdle ==
    /\ tpc = "idle"
    /\ seqs = <<>>
    /\ seqs0 = <<>>
    /\ max_len = 0

TruncateStart ==
    /\ tpc = "loop"
    /\ seqs \in SegmentLists
    /\ seqs0 = seqs
    /\ max_len \in -1..MaxBudget

\* One evaluation of the loop condition and, when it holds, of the body
\* (lines 124-126).  sorted(...)[0] on an empty list and pop(0) on an empty
\* segment raise IndexError.
TruncateStep ==
    /\ tpc = "loop"
    /\ IF OverBudget(seqs, max_len)
       THEN IF seqs = <<>> \/ seqs[Longest(seqs)] = <<>>
            THEN /\ tpc' = "raised"
                 /\ UNCHANGED seqs
            ELSE /\ seqs' = [seqs EXCEPT ![Longest(seqs)] = Pop0(@)]
                 /\ tpc' = "loop"
       ELSE /\ tpc' = "done"
            /\ UNCHANGED seqs
    /\ UNCHANGED <<seqs0, max_len>>
    /\ UNCHANGED <<paramVars, generateVars, filterVars, sampleVars, replaceVars, playVars>>

NextTruncate == TruncateStep

(***************************************************************************)
(* One request end to end: generate calls generate_raw, which runs         *)
(* sample_sequence with the generator's settings (lines 131-142 and 271),  *)
(* decodes the new tokens and post-processes the text.  The scoring model  *)
(* may raise at any call.  Token 1 decodes to "a", token 2 to ">", token 3 *)
(* is the end-of-text token, which decode skips.                           *)
(***************************************************************************)
MaxRequestNew == 2

DefaultTopK == 40

DefaultPenalty == 1

DefaultTemperature == Fraction(2, 5)

DefaultTopP == Fraction(9, 10)

RequestStopTokens == Some(<<3, 2>>)

\* tokenizer.decode(o, skip_special_tokens=True) (lines 247-249).
RECURSIVE Decode(_)
Decode(toks) ==
    IF toks = <<>> THEN <<>>
    ELSE (IF Head(toks) = 1 THEN <<"a">> ELSE IF Head(toks) = 2 THEN <<">">> ELSE <<>>)
         \o Decode(Tail(toks))

RequestStart ==
    /\ GenerateStart
    /\ spc = "idle"
    /\ context = <<>>
    /\ generated = <<>>
    /\ j = 0
    /\ length \in 1..MaxRequestNew
    /\ stop_tokens = RequestStopTokens
    /\ temperature = DefaultTemperature
    /\ repetition_penalty = DefaultPenalty
    /\ top_k = DefaultTopK
    /\ top_p = DefaultTopP
    /\ past = None
    /\ fed = <<>>
    /\ inputs = NoInputs
    /\ scorer = 0
    /\ stage = NoStage

\* Lines 266-272 and 217-243 and 70-75: generate normalises the segments and
\* generate_raw starts sample_sequence on the encoded prompt.
StartSampling ==
    /\ pc = "generate_raw"
    /\ prompt' = [i \in 1..Len(prompt) |-> prompt_replace(prompt[i])]
    /\ attempts' = attempts + 1
    /\ pc' = "sample_sequence"
    /\ \E c \in Contexts :
          /\ context' = c
          /\ generated' = c
    /\ j' = 0
    /\ past' = None
    /\ fed' = <<>>
    /\ inputs' = NoInputs
    /\ stage' = NoStage
    /\ spc' = "loop"
    /\ UNCHANGED <<depth, text, result, relaxed, ret, log, cutPolicy>>
    /\ UNCHANGED <<length, stop_tokens, temperature, repetition_penalty, scorer>>
    /\ UNCHANGED <<paramVars, filterVars, truncateVars, replaceVars, playVars>>

\* Where the generate call chain is after the scoring model raised inside
\* sample_sequence: no frame of sample_sequence, generate_raw or generate
\* catches the exception.
AfterScoringFailureRetry(p) == IF p = "sample_sequence" THEN "generate_raw" ELSE p

AfterScoringFailure(p) == IF p = "sample_sequence" THEN "failed" ELSE p

\* Lines 84-86: the call model(**inputs) raises.
StepFails ==
    /\ spc = "loop"
    /\ inputs' = [input_ids |-> InputIds(j, context, generated), past |-> past]
    /\ fed' = fed \o InputIds(j, context, generated)
    /\ spc' = "raised"
    /\ pc' = AfterScoringFailure(pc)
    /\ UNCHANGED <<context, generated, j, length, stop_tokens, temperature,
                   repetition_penalty, past, scorer, stage>>
    /\ UNCHANGED <<depth, prompt, text, result, relaxed, attempts, ret, log, cutPolicy>>
    /\ UNCHANGED <<paramVars, filterVars, truncateVars, replaceVars, playVars>>

\* Lines 244-261: sample_sequence returned; decode the new tokens and cut.
DecodeOutput ==
    /\ pc = "sample_sequence"
    /\ spc = "done"
    /\ text' = StopCuts(Decode(SubSeq(generated, Len(context) + 1, Len(generated))),
                        GenerateStopTokens)
    /\ pc' = "result_replace"
    /\ UNCHANGED <<depth, prompt, result, relaxed, attempts, ret, log, cutPolicy>>
    /\ UNCHANGED <<sampleVars, paramVars, filterVars, truncateVars, replaceVars, playVars>>

NextRequest == StartSampling \/ Step \/ StepFails \/ DecodeOutput \/ PostProcess

(***************************************************************************)
(* The specifications, one per component.                                  *)
(***************************************************************************)
GenerateIdle ==
    /\ pc = "idle"
    /\ depth = 0
    /\ prompt = <<>>
    /\ text = <<>>
    /\ result = <<>>
    /\ relaxed = FALSE
    /\ attempts = 0
    /\ ret = <<>>
    /\ log = <<>>
    /\ cutPolicy = "keep"

(***************************************************************************)
(* play(), play.py lines 93-243: the menu that starts a story and the game *)
(* loop that reads one line per iteration.  A line is a sequence of units; *)
(* each command word is one unit, so the line <<"quit">> is the input      *)
(* "quit".  What story_manager.act returns is any text, so the branches    *)
(* taken on its result are a free choice.                                  *)
(***************************************************************************)
MaxLines == 3

MaxLineLen == 2

Commands == {"restart", "quit", "help", "print", "revert"}

Lines == SeqsUpTo({"a", " ", "\""} \cup Commands, MaxLineLen)

IsCommand(line) == Len(line) = 1 /\ line[1] \in Commands

\* str.strip(): leading and trailing white space removed.
RECURSIVE Strip(_)
Strip(line) ==
    IF line = <<>> THEN line
    ELSE IF line[1] = " " THEN Strip(Tail(line))
    ELSE IF line[Len(line)] = " " THEN Strip(SubSeq(line, 1, Len(line) - 1))
    ELSE line

\* Lines 218-243: what follows the call of line 216.
Outcomes == {"looping", "won", "died_new_game", "died_go_on", "normal"}

NoLine == [line |-> <<>>, acts |-> -1]

PlayIdle ==
    /\ gpc = "idle"
    /\ nlines = 0
    /\ last = NoLine
    /\ acts = 0

PlayStart ==
    /\ gpc = "menu"
    /\ nlines = 0
    /\ last = NoLine
    /\ acts = 0

\* Lines 93-124: pick or write a prompt, start_new_story.
NewStory ==
    /\ gpc = "menu"
    /\ gpc' = "input"
    /\ UNCHANGED <<nlines, last, acts>>
    /\ UNCHANGED <<generateVars, filterVars, paramVars, sampleVars, truncateVars, replaceVars>>

\* Lines 126-243: one iteration of the game loop.
Turn ==
    /\ gpc = "input"
    /\ nlines < MaxLines
    /\ nlines' = nlines + 1
    /\ \E action \in Lines :
          IF action = <<"restart">>
          THEN /\ gpc' = "menu"
               /\ last' = [line |-> action, acts |-> 0]
               /\ UNCHANGED acts
          ELSE IF action = <<"quit">>
          THEN /\ gpc' = "exited"
               /\ last' = [line |-> action, acts |-> 0]
               /\ UNCHANGED acts
          ELSE IF action \in {<<"help">>, <<"print">>, <<"revert">>}
          THEN /\ gpc' = "input"
               /\ last' = [line |-> action, acts |-> 0]
               /\ UNCHANGED acts
          ELSE IF action # <<>> /\ action[1] # "\"" /\ Strip(action) = <<>>
          THEN \* line 204: action[0] of the empty string
               /\ gpc' = "raised"
               /\ last' = [line |-> action, acts |-> 0]
               /\ UNCHANGED acts
          ELSE LET first == IF action = <<>> THEN 1 ELSE 0  \* line 196
                   calls == first + 1                       \* line 216
               IN  /\ last' = [line |-> action, acts |-> calls]
                   /\ acts' = acts + calls
                   /\ \E outcome \in Outcomes :
                         gpc' = IF outcome \in {"won", "died_new_game"}
                                THEN "menu" ELSE "input"
    /\ UNCHANGED <<generateVars, filterVars, paramVars, sampleVars, truncateVars, replaceVars>>

NextPlay == NewStory \/ Turn

InitPlay == PlayStart /\ GenerateIdle /\ FilterIdle /\ ParamsIdle /\ SampleIdle /\ TruncateIdle /\ ReplaceIdle

SpecPlay == InitPlay /\ [][NextPlay]_vars

InitGenerate == GenerateStart /\ FilterIdle /\ ParamsIdle /\ SampleIdle /\ TruncateIdle /\ ReplaceIdle /\ PlayIdle

InitFilter == FilterStart /\ GenerateIdle /\ SampleIdle /\ TruncateIdle /\ ReplaceIdle /\ PlayIdle

InitSample == SampleStart /\ GenerateIdle /\ FilterIdle /\ TruncateIdle /\ ReplaceIdle /\ PlayIdle

InitTruncate == TruncateStart /\ GenerateIdle /\ FilterIdle /\ ParamsIdle /\ SampleIdle /\ ReplaceIdle /\ PlayIdle

InitRequest == RequestStart /\ FilterIdle /\ TruncateIdle /\ ReplaceIdle /\ PlayIdle

SpecGenerate == InitGenerate /\ [][NextGenerate]_vars

SpecRequest == InitRequest /\ [][NextRequest]_vars

InitReplace ==
    ReplaceStart /\ GenerateIdle /\ FilterIdle /\ ParamsIdle /\ SampleIdle /\ TruncateIdle
        /\ PlayIdle

SpecReplace == InitReplace /\ [][NextReplace]_vars

SpecFilter == InitFilter /\ [][NextFilter]_vars

SpecSample == InitSample /\ [][NextSample]_vars

SpecTruncate == InitTruncate /\ [][NextTruncate]_vars

(***************************************************************************)
(* Properties of GPT2Generator.generate, checked under SpecGenerate.       *)
(***************************************************************************)
IsEmptyResult(e) == ~e.out.raised /\ e.out.value = <<>>

IsNonEmptyResult(e) == ~e.out.raised /\ e.out.value # <<>>

AllEmpty(l) == \A i \in 1..Len(l) : IsEmptyResult(l[i])

\* C1: if every sampling attempt so far gave an empty post-processed result,
\* generate has not raised, is retrying at the depth equal to the number of
\* attempts made, and returns only at depth 20, after exactly 21 attempts
\* (20 recursive calls), with the empty string; the 21st empty attempt ends it.
C1_EmptyAttemptsRecurseTwentyTimes ==
    AllEmpty(log) =>
        /\ pc # "raised"
        /\ Len(log) <= 21
        /\ pc = "generate_raw" => (depth = Len(log) /\ attempts = Len(log) /\ depth <= 20)
        /\ pc = "returned" => (depth = 20 /\ attempts = 21 /\ Len(log) = 21 /\ ret = <<>>)
        /\ Len(log) = 21 => pc = "returned"

C1_Witness ==
    /\ pc = "returned"
    /\ AllEmpty(log)
    /\ Len(log) = 21
    /\ depth = 20
    /\ text # <<>>

\* C2: a non-empty post-processed result is the last attempt of the request:
\* generate returns it at once and samples no further; the empty string is
\* returned only at depth 20 with every attempt's result empty.
C2_ReturnsFirstNonEmptyResult ==
    /\ \A i \in 1..Len(log) :
          IsNonEmptyResult(log[i]) =>
              /\ i = Len(log)
              /\ pc = "returned"
              /\ ret = log[i].out.value
              /\ attempts = i
              /\ log[i].depth = i - 1
    /\ (pc = "returned" /\ ret = <<>>) => (depth = 20 /\ Len(log) = 21 /\ AllEmpty(log))

C2_Witness ==
    /\ pc = "returned"
    /\ ret # <<>>
    /\ depth = 9
    /\ attempts = 10
    /\ relaxed

\* C18: the relaxed post-processing is used only at a depth above 6 and when
\* the normal result is empty; at depths 0..6 an empty normal result leads to
\* a retry with no relaxed pass; a non-empty normal result is returned as it
\* is, at any depth.
C18_RelaxedOnlyAboveDepthSix ==
    \A i \in 1..Len(log) :
        LET entry == log[i]
            normalEmpty == ~entry.normal.raised /\ Len(entry.normal.value) = 0
            normalFull == ~entry.normal.raised /\ Len(entry.normal.value) > 0
        IN  /\ entry.relaxed => (entry.depth > 6 /\ normalEmpty)
            /\ (normalEmpty /\ entry.depth <= 6) =>
                  /\ ~entry.relaxed
                  /\ entry.out = entry.normal
                  /\ \/ i < Len(log) /\ log[i + 1].depth = entry.depth + 1
                     \/ /\ i = Len(log)
                        /\ pc \in {"generate_raw", "result_replace"}
                        /\ depth = entry.depth + 1
            /\ normalFull =>
                  /\ ~entry.relaxed
                  /\ entry.out = entry.normal
                  /\ i = Len(log)
                  /\ pc = "returned"
                  /\ ret = entry.normal.value

C18_Witness ==
    /\ pc = "returned"
    /\ Len(log) = 8
    /\ log[8].depth = 7
    /\ log[8].relaxed
    /\ Len(log[8].out.value) > 0
    /\ ret = log[8].out.value
    /\ \A i \in 1..7 : ~log[i].relaxed

\* C19: every retry appends one marker made from the depth and adds 1 to the
\* depth, so the segments given to the sampler at depth d are those given at
\* depth 0, unchanged, followed by the markers of depths 0..d-1 in order, and
\* the segment lists of distinct depths differ.
C19_PromptGrowsByMarkersOnly ==
    \A i \in 1..Len(log) :
        /\ log[i].depth = i - 1
        /\ log[i].prompt = log[1].prompt \o [k \in 1..(i - 1) |-> Marker(k - 1)]
        /\ \A k \in 1..Len(log) : k # i => log[k].prompt # log[i].prompt

\* C10: post-processing never raises: generate never ends in an exception
\* of result_replace, whatever text the sampler produced.
C10_PostProcessingNeverRaises == pc # "raised"

\* C11: the text generate_raw returns holds no occurrence of the text form
\* of a configured stop token, neither "<|endoftext|>" nor ">".
C11_NoStopTokenTextReturned ==
    pc = "result_replace" =>
        \A i \in 1..Len(text) : text[i] \notin Range(GenerateStopTokens)

(***************************************************************************)
(* Properties of result_replace, checked under SpecReplace.                *)
(***************************************************************************)
\* An already-clean string: trailing-sentence trimming leaves it unchanged
\* and it holds no "#" and no "*".
IsClean(s, allow_action, policy) ==
    /\ cut_trailing_sentence(s, allow_action, policy) = s
    /\ \A i \in 1..Len(s) : s[i] \notin {"#", "*"}

\* C13: for an already-clean string s, result_replace(result_replace(s))
\* equals result_replace(s).
C13_ResultReplaceIdempotentOnClean ==
    (rpc = "done" /\ IsClean(rtext, rallow, rpolicy)) =>
        /\ Len(rresults) = 2
        /\ rresults[2] = rresults[1]

(***************************************************************************)
(* Properties of a whole request, checked under SpecRequest.               *)
(***************************************************************************)
\* C12: once the scoring model has raised, sample_sequence has not returned
\* and generate has failed without returning text or post-processing the
\* attempt, and nothing happens any more: no model call, no retry.
C12_ScoringFailurePropagates ==
    /\ [](/\ spc = "raised" <=> pc = "failed"
          /\ spc = "raised" => (ret = <<>> /\ Len(log) = attempts - 1))
    /\ [][spc # "raised"]_vars

C12_Witness ==
    /\ spc = "raised"
    /\ pc = "failed"
    /\ depth = 3
    /\ attempts = 4
    /\ Len(generated) = Len(context) + 1
    /\ Len(fed) = Len(context) + 1

(***************************************************************************)
(* Properties of sample_sequence, checked under SpecSample.                *)
(***************************************************************************)
NewTokens == Len(generated) - Len(context)

\* C3: the sequence is always the initial context followed by at most length
\* new tokens, and every step of the loop appends exactly one token to it.
C3_ContextThenAtMostLengthTokens ==
    /\ [](/\ Len(generated) >= Len(context)
          /\ SubSeq(generated, 1, Len(context)) = context
          /\ NewTokens >= 0
          /\ NewTokens <= length)
    /\ [][/\ Len(generated') = Len(generated) + 1
          /\ SubSeq(generated', 1, Len(generated)) = generated]_vars

C3_Witness ==
    /\ spc = "done"
    /\ length = 7
    /\ NewTokens = 6
    /\ SubSeq(generated, 1, Len(context)) = context

\* C4: with stop tokens given, the loop has ended after 0-based step i exactly
\* when the token of step i is a stop token and i > 4, or i = length - 1; a
\* stop token selected after step 4 is the last token of the sequence.
C4_StopEndsLoopOnlyAfterMinSteps ==
    (stop_tokens.given /\ NewTokens > 0) =>
        LET i == NewTokens - 1
            tok == generated[Len(generated)]
            ends == (tok \in Range(stop_tokens.toks) /\ i > 4) \/ i = length - 1
        IN  /\ (spc = "done") <=> ends
            /\ \A n \in 1..NewTokens :
                  (generated[Len(context) + n] \in Range(stop_tokens.toks) /\ n - 1 > 4)
                      => n = NewTokens

C4_Witness ==
    /\ spc = "done"
    /\ stop_tokens.given
    /\ length = 7
    /\ NewTokens = 6
    /\ generated[Len(generated)] \in Range(stop_tokens.toks)
    /\ \E n \in 1..5 : generated[Len(context) + n] \in Range(stop_tokens.toks)

\* C14: with temperature 0, repetition penalty 1 and a scoring model that
\* scores one fixed token T strictly highest at every step, every new token
\* is T; length tokens are generated, and fewer only when T is a stop token
\* given to the call and was selected after step 4.
C14_GreedyRepeatsHighestToken ==
    (scorer # 0 /\ temperature.num = 0 /\ repetition_penalty = 1) =>
        LET isStop == stop_tokens.given /\ scorer \in Range(stop_tokens.toks)
        IN  /\ \A n \in 1..NewTokens : generated[Len(context) + n] = scorer
            /\ spc = "done" =>
                  /\ NewTokens = length \/ (isStop /\ NewTokens - 1 > 4)
                  /\ ~isStop => NewTokens = length
                  /\ isStop => NewTokens = Min(length, 6)

C14_Witness ==
    /\ spc = "done"
    /\ scorer = 2
    /\ temperature.num = 0
    /\ repetition_penalty = 1
    /\ top_k = 1
    /\ top_p = Fraction(9, 10)
    /\ stop_tokens = Some(<<2>>)
    /\ length = 7
    /\ generated = context \o <<2, 2, 2, 2, 2, 2>>

\* C17: the first scoring call receives the whole context and no cache; each
\* later call receives only the token appended by the previous step and the
\* cache returned by the call before it, so that at every call the inputs
\* fed so far, in order, are the sequence at that call, and a cache passed
\* in covers that sequence without its last token.
C17_CallsFeedOnlyNewTokens ==
    /\ [](inputs # NoInputs =>
            LET seq == SubSeq(generated, 1, Len(generated) - 1)
            IN  /\ fed = seq
                /\ IF NewTokens = 1
                   THEN /\ inputs.input_ids = context
                        /\ inputs.past = None
                   ELSE /\ inputs.input_ids = <<seq[Len(seq)]>>
                        /\ inputs.past = Some(SubSeq(seq, 1, Len(seq) - 1)))
    /\ [][/\ inputs'.past = past
          /\ past' = Some(fed')]_vars

C17_Witness ==
    /\ context = <<2, 1>>
    /\ NewTokens = 3
    /\ inputs = [input_ids |-> <<generated[4]>>,
                 past |-> Some(SubSeq(generated, 1, 3))]
    /\ fed = SubSeq(generated, 1, 4)

\* C15: at each decode step the penalty stage divides by the penalty the
\* score of exactly the distinct tokens of the sequence so far, each once
\* however often it occurs, and changes no other score; with penalty 1 the
\* scores passed to filtering are the unpenalised ones.
C15_PenaltyDividesSeenTokensOnce ==
    stage # NoStage =>
        /\ Len(stage.penalised) = Len(stage.scaled)
        /\ \A k \in 1..Len(stage.scaled) :
              IF \E n \in 1..Len(stage.seq) : stage.seq[n] = k
              THEN stage.penalised[k] * repetition_penalty = stage.scaled[k]
              ELSE stage.penalised[k] = stage.scaled[k]
        /\ repetition_penalty = 1 => stage.penalised = stage.scaled

C15_Witness ==
    /\ repetition_penalty = 2
    /\ stage.seq = <<1, 1, 1>>
    /\ stage.scaled = <<4, 4>>
    /\ stage.penalised = <<2, 4>>

\* C16: for every score vector and every penalty >= 1 the penalised score of
\* each token already in the sequence is at most its score before the
\* penalty, so such a token never gains rank against an unseen token.
C16_PenaltySuppressesRepeats ==
    stage # NoStage =>
        \A k \in Range(stage.seq) :
            /\ stage.penalised[k] <= stage.scaled[k]
            /\ \A u \in Vocab \ Range(stage.seq) :
                  /\ stage.scaled[k] <= stage.scaled[u]
                        => stage.penalised[k] <= stage.penalised[u]
                  /\ stage.scaled[k] < stage.scaled[u]
                        => stage.penalised[k] < stage.penalised[u]

(***************************************************************************)
(* Properties of top_k_top_p_filtering, checked under SpecFilter.          *)
(***************************************************************************)
RECURSIVE WeightOf(_, _)
WeightOf(v, S) ==
    IF S = {} THEN 0
    ELSE LET i == CHOOSE x \in S : TRUE IN Weight(v, i) + WeightOf(v, S \ {i})

\* C5: with top_k = k > 0 and top_p off, exactly min(k, vocabulary size)
\* entries of an all-finite score vector stay unmasked, and no masked entry
\* scores higher than an unmasked one.
C5_TopKKeepsExactlyK ==
    (/\ fpc = "done"
     /\ top_k > 0
     /\ top_p.num = 0
     /\ Unmasked(logits) = 1..Len(logits)) =>
        /\ Cardinality(Unmasked(filtered)) = Min(top_k, Len(logits))
        /\ \A i \in Unmasked(filtered) : filtered[i] = logits[i]
        /\ \A i \in Unmasked(filtered), m \in (1..Len(logits)) \ Unmasked(filtered) :
              logits[m] <= logits[i]

\* C6: after filtering at least one entry is unmasked, a highest-scoring
\* entry of the input is among the unmasked, and the unmasked entries are
\* among those the top-k stage alone keeps.
C6_HighestScoreSurvives ==
    fpc = "done" =>
        /\ Unmasked(filtered) # {}
        /\ \E i \in Unmasked(filtered) : \A k \in 1..Len(logits) : logits[k] <= logits[i]
        /\ Unmasked(filtered) \subseteq Unmasked(after_top_k)
        /\ Unmasked(after_top_k) \subseteq Unmasked(logits)

C6_Witness ==
    /\ fpc = "done"
    /\ top_k = 2
    /\ top_p = Fraction(1, 1000)
    /\ Cardinality(Unmasked(logits)) = 3
    /\ Cardinality(Unmasked(after_top_k)) = 2
    /\ Cardinality(Unmasked(filtered)) = 1

IsSuffix(s, t) == Len(s) <= Len(t) /\ s = SubSeq(t, Len(t) - Len(s) + 1, Len(t))

\* C8: with max_len >= 0 the loop does not raise, every pass that does not
\* end it shortens the segments (so it terminates), on return the segment
\* lengths sum to at most max_len, and segments that fitted are unchanged.
C8_TruncateFitsBudget ==
    /\ [](max_len >= 0 =>
            /\ tpc # "raised"
            /\ tpc = "done" => TotalLen(seqs) <= max_len
            /\ (tpc = "done" /\ TotalLen(seqs0) <= max_len) => seqs = seqs0)
    /\ [][(max_len >= 0 /\ tpc' = "loop") =>
            (TotalLen(seqs') < TotalLen(seqs) /\ TotalLen(seqs') >= max_len)]_vars

C8_Witness ==
    /\ tpc = "done"
    /\ max_len = 2
    /\ TotalLen(seqs0) = 6
    /\ TotalLen(seqs) = 2

\* C9: every segment is a suffix of the segment passed in at the same
\* position, and the list holds as many segments as were passed in.
C9_SegmentsAreSuffixes ==
    /\ Len(seqs) = Len(seqs0)
    /\ \A i \in 1..Len(seqs) : IsSuffix(seqs[i], seqs0[i])

C9_Witness ==
    /\ tpc = "done"
    /\ \E i \in 1..Len(seqs) : seqs0[i] = <<1, 2>> /\ seqs[i] = <<2>>
    /\ \E i \in 1..Len(seqs) : seqs[i] = seqs0[i] /\ seqs[i] # <<>>

\* C20: truncate_multiple_sequences ends normally for every budget, also a
\* negative one that cannot be met: it never raises.
C20_TruncateEndsNormallyForEveryBudget == tpc # "raised"

\* C21: every iteration removes the first token of a segment of greatest
\* current length, the first such segment of the list when several share
\* that length; a segment strictly shorter than another is never shortened.
C21_PopsFirstTokenOfFirstLongest ==
    [][seqs' # seqs =>
        \E i \in 1..Len(seqs) :
            /\ \A k \in 1..Len(seqs) : Len(seqs[k]) <= Len(seqs[i])
            /\ \A k \in 1..(i - 1) : Len(seqs[k]) < Len(seqs[i])
            /\ seqs[i] # <<>>
            /\ seqs[i] = <<seqs[i][1]>> \o seqs'[i]
            /\ Len(seqs') = Len(seqs)
            /\ \A k \in 1..Len(seqs) :
                  /\ k # i => seqs'[k] = seqs[k]
                  /\ (\E m \in 1..Len(seqs) : Len(seqs[k]) < Len(seqs[m]))
                        => seqs'[k] = seqs[k]]_vars

C21_Witness ==
    /\ tpc = "done"
    /\ max_len = 3
    /\ seqs0 = <<<<1, 2>>, <<1, 2>>>>
    /\ seqs = <<<<2>>, <<1, 2>>>>

(***************************************************************************)
(* Properties of the game loop of play, checked under SpecPlay.            *)
(***************************************************************************)
\* C22: every input line that is not a command (restart, quit, help, print,
\* revert) causes exactly one call of story_manager.act, the empty line
\* included, and a command line causes none.
C22_OneActPerNonCommandLine ==
    last # NoLine =>
        last.acts = IF IsCommand(last.line) THEN 0 ELSE 1

====
